---- MODULE Spec2Model ----
(***************************************************************************)
(* A model of the hierarchical configuration loader                        *)
(* (src/lib/config-loader.ts) with the environment checker it imports      *)
(* (src/unnamed/part_000).                                                 *)
(*                                                                         *)
(* JSON values are uniform records, so that any two of them compare:       *)
(*   kind   : "null" "boolean" "integer" "string" "array" "object", and    *)
(*            "undefined" for the value of a key an object does not hold   *)
(*   val    : the literal of a scalar                                      *)
(*   items  : the elements of an array                                     *)
(*   fields : the own properties of an object (a function on its keys)     *)
(* A configuration (DeepPartial<T>) is the fields function of its root.    *)
(***************************************************************************)
EXTENDS Integers, Sequences, FiniteSets, TLC

\* ------------------------------------------------------------------ values

EmptyConfig == [k \in {} |-> 0]

Scalar(k, v) == [kind |-> k, val |-> v, items |-> <<>>, fields |-> EmptyConfig]

Null == Scalar("null", "null")

Undefined == Scalar("undefined", "")

IntV(v) == Scalar("integer", v)

StrV(v) == Scalar("string", v)

BoolV(v) == Scalar("boolean", v)

Arr(s) == [kind |-> "array", val |-> "", items |-> s, fields |-> EmptyConfig]

Obj(f) == [kind |-> "object", val |-> "", items |-> <<>>, fields |-> f]

\* merged[key]: undefined when the object has no such property
Get(config, key) == IF key \in DOMAIN config THEN config[key] ELSE Undefined

\* { ...merged, [key]: value }
Spread(config, key, value) ==
  [k \in DOMAIN config \cup {key} |-> IF k = key THEN value ELSE config[k]]

\* ------------------------------------------------------------------ merge

\* an isConfigObject without its Array.isArray test
isConfigObjectNoArrayCheck(value) == value.kind \in {"object", "array"}

\* typeof value === 'object' && value !== null && !Array.isArray(value)
isConfigObject(value) == value.kind = "object"

\* Array.prototype.reduce over the entries of an object. The entries come in
\* insertion order; the keys are distinct and a step writes its own key only.
RECURSIVE ReduceEntries(_, _, _)
ReduceEntries(Op(_, _), acc, keys) ==
  IF keys = {} THEN acc
  ELSE LET key == CHOOSE k \in keys : TRUE
       IN ReduceEntries(Op, Op(acc, key), keys \ {key})

\* The property name of an array index (String(i - 1): JS indices start at 0).
IndexKey(i) == CASE i = 1 -> "0" [] i = 2 -> "1" [] i = 3 -> "2" [] OTHER -> "n"

\* The own enumerable properties Object.entries(value) and { ...value } see:
\* those of an object, and of an array its indices.
OwnProperties(value) ==
  IF value.kind = "array"
  THEN [k \in {IndexKey(i) : i \in DOMAIN value.items} |->
          value.items[CHOOSE i \in DOMAIN value.items : IndexKey(i) = k]]
  ELSE value.fields

\* a merge whose reduce starts from {} instead of a copy of the target
RECURSIVE mergeConfigsFromEmpty(_, _)
mergeConfigsFromEmpty(target, source) ==
  LET step(merged, key) ==
        LET sourceValue == source[key]
            targetValue == Get(merged, key)
        IN IF isConfigObject(sourceValue) /\ isConfigObject(targetValue)
           THEN Spread(merged, key,
                       Obj(mergeConfigsFromEmpty(OwnProperties(targetValue),
                                                 OwnProperties(sourceValue))))
           ELSE IF sourceValue # Undefined
                THEN Spread(merged, key, sourceValue)
                ELSE merged
  IN ReduceEntries(step, EmptyConfig, DOMAIN source)

RECURSIVE mergeConfigs(_, _)
mergeConfigs(target, source) ==
  LET step(merged, key) ==
        LET sourceValue == source[key]
            targetValue == Get(merged, key)
        IN IF isConfigObject(sourceValue) /\ isConfigObject(targetValue)
           THEN Spread(merged, key,
                       Obj(mergeConfigs(OwnProperties(targetValue), OwnProperties(sourceValue))))
           ELSE IF sourceValue # Undefined
                THEN Spread(merged, key, sourceValue)
                ELSE merged
  IN ReduceEntries(step, target, DOMAIN source)

\* ------------------------------------------------------------------ schema

\* A JSON Schema node of the subset the loaders use: type, properties,
\* required, additionalProperties.
TypeSchema(t) ==
  [type |-> t, properties |-> EmptyConfig, required |-> {}, additionalProperties |-> TRUE]

ObjectSchema(props, req, additional) ==
  [type |-> "object", properties |-> props, required |-> req,
   additionalProperties |-> additional]

\* Ajv's "type" keyword: an integer is also a number.
TypeMatches(kind, type) == kind = type \/ (kind = "integer" /\ type = "number")

Violation(path, keyword, param) == [instancePath |-> path, keyword |-> keyword, param |-> param]

\* validate.errors with allErrors: true: every violation of the document.
RECURSIVE AjvErrors(_, _, _)
AjvErrors(schema, value, path) ==
  IF ~TypeMatches(value.kind, schema.type)
  THEN {Violation(path, "type", schema.type)}
  ELSE IF schema.type # "object" THEN {}
  ELSE {Violation(path, "required", k) : k \in schema.required \ DOMAIN value.fields}
       \cup (IF schema.additionalProperties THEN {}
             ELSE {Violation(path, "additionalProperties", k) :
                     k \in DOMAIN value.fields \ DOMAIN schema.properties})
       \cup UNION {AjvErrors(schema.properties[k], value.fields[k], Append(path, k)) :
                     k \in DOMAIN value.fields \cap DOMAIN schema.properties}

\* validate(config): the compiled schema applied to the whole document
Satisfies(schema, config) == AjvErrors(schema, Obj(config), <<>>) = {}


\* ------------------------------------------------------------------ bounds

\* load() calls in one behaviour
MaxCalls == 2

\* entries in one directory listing
MaxFiles == 2

\* overwrites of a configuration file in one behaviour
MaxWrites == 1

\* clearConfigCache() calls in one behaviour
MaxClears == 1

\* ------------------------------------------------------------------ state

VARIABLES
  windowDefined,    \* typeof window !== 'undefined'
  documentDefined,  \* typeof document !== 'undefined'
  nodeEnv,          \* process.env.NODE_ENV
  fsImportable,     \* whether import('fs/promises') resolves in this runtime
  pathImportable,   \* whether import('path') resolves in this runtime
  fsPromises,       \* the module-level handle: "null" or "fs/promises"
  pathModule,       \* the module-level handle: "null" or "path"
  configCache,      \* the module-level Map: cache key -> configuration
  disk,             \* directory path -> directory
  calls,            \* the load() calls, by number
  writes,           \* files overwritten so far
  clears,           \* clearConfigCache() calls so far
  target,           \* mergeConfigs on its own: its first argument,
  source,           \*   its second argument,
  merged,           \*   and what it returned
  returned,         \*   once it has returned
  outcome,          \* loadConfig of main.ts on its own: the schema and what it gave
  heapCall,         \* mergeConfigs on objects held by reference: the heap before
                    \*   and after, the argument and result addresses
  assoc             \* three documents merged in both groupings and as two layers

runtime == <<windowDefined, documentDefined, nodeEnv, fsImportable, pathImportable>>

mergeCall == <<target, source, merged, returned, outcome, heapCall, assoc>>

vars == <<runtime, fsPromises, pathModule, configCache, disk, calls, writes, clears,
          mergeCall>>

\* ------------------------------------------------------------------ errors

ConfigErrorCode ==
  {"INVALID_SCHEMA", "FILE_NOT_FOUND", "PARSE_ERROR", "VALIDATION_ERROR",
   "MERGE_ERROR", "LOAD_ERROR", "FILE_READ_ERROR", "DIR_READ_ERROR"}

\* An error is the chain of its tags, outermost first: the head is its .code
\* (a ConfigErrorCode, a Node error code) or its class name, the tail the
\* error it wraps in .errors.
NodeError(code) == <<code>>

ConfigurationError(code, errors) == <<code>> \o errors

\* error instanceof ConfigurationError
IsConfigurationError(error) == error # <<>> /\ Head(error) \in ConfigErrorCode

\* ------------------------------------------------------------------ promises

Pending == [status |-> "pending", value |-> EmptyConfig, reason |-> <<>>, errors |-> {}]

Fulfilled(v) == [status |-> "fulfilled", value |-> v, reason |-> <<>>, errors |-> {}]

Rejected(r) == [status |-> "rejected", value |-> EmptyConfig, reason |-> r, errors |-> {}]

\* loadConfig of main.ts has not been called
NoOutcome == [loader |-> "", result |-> Pending]

\* no documents handed to the groupings of mergeConfigs
NoAssoc ==
  [files |-> <<>>, m |-> 0, left |-> EmptyConfig, right |-> EmptyConfig,
   layered |-> EmptyConfig, returned |-> FALSE]

\* no objects allocated, mergeConfigs not called on them
NoHeapCall ==
  [before |-> <<>>, heap |-> <<>>, target |-> 0, source |-> 0, merged |-> 0,
   returned |-> FALSE]

\* ------------------------------------------------------------------ environment checker

IS_BROWSER == windowDefined /\ documentDefined

IS_SERVER == ~IS_BROWSER

isSSR == IS_SERVER

\* the second env.checker: IS_SERVER looks at window alone
IS_SERVER2 == ~windowDefined

IS_BROWSER2 == windowDefined /\ documentDefined

\* the env.checker of main.ts
isBrowser == windowDefined /\ documentDefined

isServer == ~isBrowser

\* ------------------------------------------------------------------ files

UnsetEnv == "(unset)"

\* path.join: the non-empty segments, in order
pathJoin(dir, name) == IF name = "" THEN dir ELSE Append(dir, name)

TextP == "{\"port\":8080,\"debug\":false,\"db\":{\"host\":\"h\"}}"

TextQ == "{\"debug\":true,\"db\":{\"port\":5432}}"

TextGarbage == "{\"port\":"

TextR == "{\"debug\":\"yes\"}"

DocP == [port |-> IntV("8080"), debug |-> BoolV("false"), db |-> Obj([host |-> StrV("h")])]

DocQ == [debug |-> BoolV("true"), db |-> Obj([port |-> IntV("5432")])]

DocR == [debug |-> StrV("yes")]

\* JSON.parse(content): the document of a text, or a SyntaxError
JSONparse(content) ==
  CASE content = TextP -> Fulfilled(DocP)
    [] content = TextQ -> Fulfilled(DocQ)
    [] content = TextR -> Fulfilled(DocR)
    [] OTHER -> Rejected(NodeError("SyntaxError"))

\* file.endsWith('.json')
endsWithJson(file) == file \in {"a.json", "b.json", "c.json", "d.json"}

\* A directory entry: a regular file with its text, or a name whose target is
\* gone (a dangling link, a file removed after the listing).
RegularFile(name, text) == [name |-> name, present |-> TRUE, text |-> text]

DanglingFile(name) == [name |-> name, present |-> FALSE, text |-> ""]

\* A directory: missing (ENOENT), unlistable (EACCES), or its listing in the
\* order readdir returns it.
AbsentDir == [exists |-> FALSE, listable |-> FALSE, entries |-> <<>>]

DeniedDir == [exists |-> TRUE, listable |-> FALSE, entries |-> <<>>]

PresentDir(entries) == [exists |-> TRUE, listable |-> TRUE, entries |-> entries]

DirAt(path) == IF path \in DOMAIN disk THEN disk[path] ELSE AbsentDir

\* fsPromises.readdir(dirPath)
readdir(dirPath) ==
  LET dir == DirAt(dirPath)
  IN IF ~dir.exists THEN [ok |-> FALSE, files |-> <<>>, error |-> NodeError("ENOENT")]
     ELSE IF ~dir.listable THEN [ok |-> FALSE, files |-> <<>>, error |-> NodeError("EACCES")]
     ELSE [ok |-> TRUE, files |-> [i \in DOMAIN dir.entries |-> dir.entries[i].name],
           error |-> <<>>]

\* fsPromises.readFile(filePath, 'utf-8'), filePath = join(dirPath, file)
readFile(dirPath, file) ==
  LET dir == DirAt(dirPath)
      hits == {i \in DOMAIN dir.entries : dir.entries[i].name = file}
  IN IF hits = {} \/ \A i \in hits : ~dir.entries[i].present
     THEN [ok |-> FALSE, content |-> "", error |-> NodeError("ENOENT")]
     ELSE [ok |-> TRUE, content |-> dir.entries[CHOOSE i \in hits : TRUE].text,
           error |-> <<>>]

\* ------------------------------------------------------------------ loaders

Loaders == {"A", "B"}

ConfigProperties ==
  [port |-> TypeSchema("integer"), debug |-> TypeSchema("boolean"),
   db |-> ObjectSchema([host |-> TypeSchema("string"), port |-> TypeSchema("integer")],
                       {}, TRUE)]

\* every field optional
SchemaA == ObjectSchema(ConfigProperties, {}, TRUE)

\* port and debug required, no unknown property
SchemaB == ObjectSchema(ConfigProperties, {"port", "debug"}, FALSE)

\* a schema that is not a JSON Schema: its "type" names no type
SchemaM == [SchemaA EXCEPT !.type = "objekt"]

\* the loaders with a well-formed schema, and all of them
AllLoaders == Loaders \cup {"M"}

\* this.options of a loader, as the constructor resolves them
options(l) ==
  [configDir |-> <<"config">>,
   schema |-> CASE l = "A" -> SchemaA [] l = "B" -> SchemaB [] OTHER -> SchemaM,
   cache |-> l = "A",
   defaultEnv |-> "development",
   includeBaseConfig |-> FALSE]


\* ------------------------------------------------------------------ pipeline

\* a reduce that takes the configurations from the last to the first
RECURSIVE reduceConfigsRightToLeft(_, _)
reduceConfigsRightToLeft(acc, configs) ==
  IF configs = <<>> THEN acc
  ELSE reduceConfigsRightToLeft(mergeConfigs(acc, configs[Len(configs)]),
                                SubSeq(configs, 1, Len(configs) - 1))

\* configs.reduce((acc, config) => this.mergeConfigs(acc, config), acc0)
RECURSIVE reduceConfigs(_, _)
reduceConfigs(acc, configs) ==
  IF configs = <<>> THEN acc
  ELSE reduceConfigs(mergeConfigs(acc, Head(configs)), Tail(configs))

\* a validateConfig that returns the configuration without consulting validate
validateConfigUnchecked(l, config) == Fulfilled(config)

\* new ConfigLoader(options): resolves the options and creates the Ajv
\* instance; it compiles nothing and throws nothing
constructor(l) == [options |-> options(l), thrown |-> <<>>]

\* the types a schema may name
SchemaTypes == {"object", "integer", "number", "string", "boolean", "array", "null"}

\* ajv.compile(schema) accepts the schema: it throws an Error on a schema
\* that is not a valid JSON Schema
RECURSIVE compiles(_)
compiles(schema) ==
  /\ schema.type \in SchemaTypes
  /\ \A k \in DOMAIN schema.properties : compiles(schema.properties[k])

\* a validateConfig whose validator stops at the first violation
validateConfigFirstError(l, config) ==
  LET errors == AjvErrors(options(l).schema, Obj(config), <<>>)
  IN IF ~compiles(options(l).schema) THEN Rejected(NodeError("Error"))
     ELSE IF errors # {}
     THEN [Rejected(ConfigurationError("VALIDATION_ERROR", <<>>)) EXCEPT
             !.errors = {CHOOSE e \in errors : TRUE}]
     ELSE Fulfilled(config)

\* validateConfig(config) of loader l: the Error of ajv.compile, or the
\* configuration, or VALIDATION_ERROR carrying validate.errors
validateConfig(l, config) ==
  LET errors == AjvErrors(options(l).schema, Obj(config), <<>>)
  IN IF ~compiles(options(l).schema) THEN Rejected(NodeError("Error"))
     ELSE IF errors # {}
     THEN [Rejected(ConfigurationError("VALIDATION_ERROR", <<>>)) EXCEPT !.errors = errors]
     ELSE Fulfilled(config)

\* loadFile once its readFile has completed
loadFile(dirPath, file) ==
  LET read == readFile(dirPath, file)
  IN IF ~read.ok
     THEN Rejected(ConfigurationError("FILE_READ_ERROR", read.error))
     ELSE LET parsed == JSONparse(read.content)
          IN IF parsed.status = "rejected"
             THEN Rejected(ConfigurationError("FILE_READ_ERROR", parsed.reason))
             ELSE parsed

\* a catch clause of loadConfigFiles without the ENOENT case
loadConfigFilesCatchAll(err) == Rejected(ConfigurationError("DIR_READ_ERROR", err))

\* the catch clause of loadConfigFiles
loadConfigFilesCatch(err) ==
  IF err # <<>> /\ Head(err) = "ENOENT"
  THEN Fulfilled(EmptyConfig)
  ELSE Rejected(ConfigurationError("DIR_READ_ERROR", err))

\* One loadConfigFiles(dirPath) in progress: the stage it waits in, the .json
\* names of the listing, the promise of each loadFile, the order in which the
\* reads completed, and its own promise.
IdleDir ==
  [stage |-> "idle", path |-> <<>>, jsonFiles |-> <<>>, configs |-> <<>>,
   completed |-> <<>>, promise |-> Pending]

\* an await of the reads that folds the configurations in the order the reads
\* completed instead of the order of the listing
awaitConfigsAsCompleted(dir) ==
  LET failed == {i \in DOMAIN dir.configs : dir.configs[i].status = "rejected"}
  IN IF dir.promise.status # "pending" \/ dir.stage # "reading" THEN dir
     ELSE IF failed # {}
     THEN [dir EXCEPT !.promise =
             Rejected(ConfigurationError("DIR_READ_ERROR",
                        dir.configs[CHOOSE i \in failed : TRUE].reason))]
     ELSE IF \A i \in DOMAIN dir.configs : dir.configs[i].status = "fulfilled"
     THEN [dir EXCEPT !.promise =
             Fulfilled(reduceConfigs(EmptyConfig,
                         IF Len(dir.completed) = Len(dir.configs)
                         THEN [n \in DOMAIN dir.completed |->
                                 dir.configs[dir.completed[n]].value]
                         ELSE [i \in DOMAIN dir.configs |-> dir.configs[i].value]))]
     ELSE dir

\* an await that waits for every read to settle and folds the ones that were
\* fulfilled, leaving out the failures
awaitConfigsSettled(dir) ==
  LET read == {i \in DOMAIN dir.configs : dir.configs[i].status = "fulfilled"}
  IN IF dir.promise.status # "pending" \/ dir.stage # "reading" THEN dir
     ELSE IF \A i \in DOMAIN dir.configs : dir.configs[i].status # "pending"
     THEN [dir EXCEPT !.promise =
             Fulfilled(reduceConfigs(EmptyConfig,
                         [i \in DOMAIN dir.configs |->
                            IF i \in read THEN dir.configs[i].value ELSE EmptyConfig]))]
     ELSE dir

\* await Promise.all(configs), then the fold: rejected by the first loadFile
\* to reject, folded once every loadFile is fulfilled
awaitConfigs(dir) ==
  LET failed == {i \in DOMAIN dir.configs : dir.configs[i].status = "rejected"}
  IN IF dir.promise.status # "pending" \/ dir.stage # "reading" THEN dir
     ELSE IF failed # {}
     THEN [dir EXCEPT !.promise =
             loadConfigFilesCatch(dir.configs[CHOOSE i \in failed : TRUE].reason)]
     ELSE IF \A i \in DOMAIN dir.configs : dir.configs[i].status = "fulfilled"
     THEN [dir EXCEPT !.promise =
             Fulfilled(reduceConfigs(EmptyConfig,
                         [i \in DOMAIN dir.configs |-> dir.configs[i].value]))]
     ELSE dir

\* a loadConfigFiles without its guard on the context and the module handles
loadConfigFilesUnguarded(dirPath, fsP, pathM) ==
  [IdleDir EXCEPT !.path = dirPath, !.stage = "listing"]

\* loadConfigFiles(dirPath) up to its first await
loadConfigFiles(dirPath, fsP, pathM) ==
  IF ~isSSR \/ fsP = "null" \/ pathM = "null"
  THEN [IdleDir EXCEPT !.path = dirPath, !.stage = "skipped",
                       !.promise = Fulfilled(EmptyConfig)]
  ELSE [IdleDir EXCEPT !.path = dirPath, !.stage = "listing"]

\* loadConfigFiles when its readdir has completed: the filter, and one
\* loadFile per .json name
listed(dir) ==
  LET ls == readdir(dir.path)
      jsonFiles == SelectSeq(ls.files, endsWithJson)
      reads == isSSR /\ fsPromises # "null" /\ pathModule # "null"
  IN IF ~ls.ok
     THEN [dir EXCEPT !.stage = "failed", !.promise = loadConfigFilesCatch(ls.error)]
     ELSE awaitConfigs(
            [dir EXCEPT !.stage = "reading", !.jsonFiles = jsonFiles,
                        !.configs = [i \in DOMAIN jsonFiles |->
                                       IF reads THEN Pending ELSE Fulfilled(EmptyConfig)]])

Roles == {"default", "env"}

\* a loadAndMergeConfigs that merges the default layer over the environment's
loadAndMergeConfigsEnvFirst(defaultConfig, envConfig) ==
  IF defaultConfig.status = "rejected" THEN defaultConfig
  ELSE IF envConfig.status = "rejected" THEN envConfig
  ELSE IF defaultConfig.status = "fulfilled" /\ envConfig.status = "fulfilled"
  THEN Fulfilled(mergeConfigs(envConfig.value, defaultConfig.value))
  ELSE Pending

\* await Promise.all([default, env]) and the merge of loadAndMergeConfigs
loadAndMergeConfigs(defaultConfig, envConfig) ==
  IF defaultConfig.status = "rejected" THEN defaultConfig
  ELSE IF envConfig.status = "rejected" THEN envConfig
  ELSE IF defaultConfig.status = "fulfilled" /\ envConfig.status = "fulfilled"
  THEN Fulfilled(mergeConfigs(defaultConfig.value, envConfig.value))
  ELSE Pending

\* the catch clause of load()
loadCatch(promise) ==
  IF promise.status = "rejected" /\ ~IsConfigurationError(promise.reason)
  THEN Rejected(ConfigurationError("LOAD_ERROR", promise.reason))
  ELSE promise

\* One load() call.
IdleCall ==
  [pc |-> "idle", loader |-> "A", env |-> "", dirs |-> [r \in Roles |-> IdleDir],
   result |-> Pending, readdirCalls |-> 0, readFileCalls |-> 0,
   mergeCalls |-> 0, compileCalls |-> 0,
   after |-> {}, clearsSeen |-> 0, writesSeen |-> 0]

\* a try block that merges and validates as soon as one directory has
\* settled, taking {} for the other
settleEager(call) ==
  LET d == call.dirs["default"].promise
      e == call.dirs["env"].promise
  IN IF call.result.status # "pending" \/ (d.status = "pending" /\ e.status = "pending")
     THEN call
     ELSE [call EXCEPT !.pc = "done", !.mergeCalls = @ + 1, !.compileCalls = @ + 1,
             !.result = loadCatch(validateConfig(call.loader, mergeConfigs(d.value, e.value)))]

\* the try block of load(): settles the call once loadAndMergeConfigs settles
settle(call) ==
  LET config == loadAndMergeConfigs(call.dirs["default"].promise, call.dirs["env"].promise)
  IN IF call.result.status # "pending" \/ config.status = "pending" THEN call
     ELSE IF config.status = "rejected"
     THEN [call EXCEPT !.pc = "done", !.result = loadCatch(config)]
     ELSE [call EXCEPT !.pc = "done", !.mergeCalls = @ + 1, !.compileCalls = @ + 1,
             !.result = loadCatch(validateConfig(call.loader, config.value))]

\* load() from the return of loadServerModules on
loaded(call, fsP, pathM) ==
  IF pathM = "null"
  THEN [call EXCEPT !.pc = "done", !.compileCalls = @ + 1,
                    !.result = loadCatch(validateConfig(call.loader, EmptyConfig))]
  ELSE LET configDir == options(call.loader).configDir
           d == loadConfigFiles(pathJoin(configDir, "default"), fsP, pathM)
           e == loadConfigFiles(pathJoin(configDir, call.env), fsP, pathM)
           n == Cardinality({x \in {<<"default", d>>, <<"env", e>>} : x[2].stage = "listing"})
       IN settle([call EXCEPT !.pc = "loading",
                              !.dirs = [r \in Roles |-> IF r = "default" THEN d ELSE e],
                              !.readdirCalls = @ + n])

\* I/O of the call that has not completed
InFlight(call) ==
  \/ call.pc \notin {"idle", "done"}
  \/ \E r \in Roles :
       \/ call.dirs[r].stage = "listing"
       \/ \E i \in DOMAIN call.dirs[r].configs : call.dirs[r].configs[i].status = "pending"

Calls == 1..MaxCalls

Quiescent == \A c \in Calls : ~InFlight(calls[c])


\* ------------------------------------------------------------------ operations

\* process.env.NODE_ENV ?? this.options.defaultEnv
resolveEnv(l) == IF nodeEnv = UnsetEnv THEN options(l).defaultEnv ELSE nodeEnv

\* typeof process !== 'undefined'. load() reads process.env before it calls
\* loadServerModules, and env.checker reads it when the module is evaluated:
\* a loader exists only where process is defined.
processDefined == TRUE

\* load() resumed with the value of loadServerModules()
resumed(call, fsP, pathM) ==
  IF ~processDefined
  THEN [call EXCEPT !.pc = "done", !.compileCalls = @ + 1,
                    !.result = validateConfig(call.loader, EmptyConfig)]
  ELSE loaded(call, fsP, pathM)

\* a load() that answers from the last call of the same loader that returned
\* a configuration, whatever happened since
loadServingPrior(c, l) ==
  LET prior == {p \in Calls : /\ calls[p].pc = "done" /\ calls[p].loader = l
                              /\ calls[p].result.status = "fulfilled"}
      call == [IdleCall EXCEPT !.loader = l, !.env = resolveEnv(l),
                 !.after = {p \in Calls : calls[p].pc = "done"},
                 !.clearsSeen = clears, !.writesSeen = writes]
  IN IF prior # {}
     THEN [call EXCEPT !.pc = "done", !.result = calls[CHOOSE p \in prior : TRUE].result]
     ELSE IF ~isSSR
     THEN [call EXCEPT !.pc = "done", !.result = validateConfig(l, EmptyConfig)]
     ELSE IF fsPromises = "null" THEN [call EXCEPT !.pc = "importFs"]
     ELSE IF pathModule = "null" THEN [call EXCEPT !.pc = "importPath"]
     ELSE resumed(call, fsPromises, pathModule)

\* a load() that takes the server modules for unavailable while another call
\* is importing them
loadSkippingWhenBusy(c, l) ==
  LET call == [IdleCall EXCEPT !.loader = l, !.env = resolveEnv(l),
                 !.after = {p \in Calls : calls[p].pc = "done"},
                 !.clearsSeen = clears, !.writesSeen = writes]
  IN IF ~isSSR \/ \E p \in Calls : calls[p].pc \in {"importFs", "importPath"}
     THEN [call EXCEPT !.pc = "done", !.compileCalls = @ + 1,
                       !.result = validateConfig(l, EmptyConfig)]
     ELSE IF fsPromises = "null" THEN [call EXCEPT !.pc = "importFs"]
     ELSE IF pathModule = "null" THEN [call EXCEPT !.pc = "importPath"]
     ELSE resumed(call, fsPromises, pathModule)

\* a load() of a loader that failed before fails again with the same error,
\* without running the pipeline
loadStickyFailure(c, l) ==
  LET prior == {p \in Calls : /\ calls[p].pc = "done" /\ calls[p].loader = l
                              /\ calls[p].result.status = "rejected"}
      call == [IdleCall EXCEPT !.loader = l, !.env = resolveEnv(l),
                 !.after = {p \in Calls : calls[p].pc = "done"},
                 !.clearsSeen = clears, !.writesSeen = writes]
  IN IF prior # {}
     THEN [call EXCEPT !.pc = "done", !.result = calls[CHOOSE p \in prior : TRUE].result]
     ELSE IF ~isSSR
     THEN [call EXCEPT !.pc = "done", !.compileCalls = @ + 1,
                       !.result = validateConfig(l, EmptyConfig)]
     ELSE IF fsPromises = "null" THEN [call EXCEPT !.pc = "importFs"]
     ELSE IF pathModule = "null" THEN [call EXCEPT !.pc = "importPath"]
     ELSE resumed(call, fsPromises, pathModule)

\* load() of loader l, up to its first await
load(c, l) ==
  LET call == [IdleCall EXCEPT !.loader = l, !.env = resolveEnv(l),
                 !.after = {p \in Calls : calls[p].pc = "done"},
                 !.clearsSeen = clears, !.writesSeen = writes]
  IN IF ~isSSR
     THEN [call EXCEPT !.pc = "done", !.compileCalls = @ + 1,
                       !.result = validateConfig(l, EmptyConfig)]
     ELSE IF fsPromises = "null" THEN [call EXCEPT !.pc = "importFs"]
     ELSE IF pathModule = "null" THEN [call EXCEPT !.pc = "importPath"]
     ELSE resumed(call, fsPromises, pathModule)

\* the key of a configuration in configCache
cacheKey(call) == <<options(call.loader).configDir, call.env>>

\* a load() that stores whatever it settled with, for any loader
cacheAfterLoadStoring(call) ==
  IF call.pc # "done" THEN configCache
  ELSE [k \in DOMAIN configCache \cup {cacheKey(call)} |->
          IF k = cacheKey(call) THEN call.result.value ELSE configCache[k]]

\* configCache once a step of load() has run: load() holds no configCache.get
\* and no configCache.set.
cacheAfterLoad(call) == configCache

\* What is left of a call that has returned: its result and its counts (the
\* locals of its loadConfigFiles are gone).
returnedCall(call) == [call EXCEPT !.dirs = [r \in Roles |-> IdleDir]]

\* A caller awaits each load() before the next call.
StartLoad(c, l) ==
  /\ calls[c].pc = "idle"
  /\ \A p \in Calls : p < c => calls[p].pc = "done"
  /\ Quiescent
  /\ calls' = [p \in Calls |-> IF p = c THEN load(c, l) ELSE returnedCall(calls[p])]
  /\ configCache' = cacheAfterLoad(calls'[c])
  /\ UNCHANGED <<runtime, mergeCall, fsPromises, pathModule, disk, writes, clears>>

\* fsPromises = await import('fs/promises').catch(() => null)
ImportFsDone(c) ==
  /\ calls[c].pc = "importFs"
  /\ fsPromises' = IF fsImportable THEN "fs/promises" ELSE "null"
  /\ calls' = [calls EXCEPT ![c] =
                 IF pathModule = "null" THEN [@ EXCEPT !.pc = "importPath"]
                 ELSE resumed(@, fsPromises', pathModule)]
  /\ configCache' = cacheAfterLoad(calls'[c])
  /\ UNCHANGED <<runtime, mergeCall, pathModule, disk, writes, clears>>

\* pathModule = await import('path').catch(() => null)
ImportPathDone(c) ==
  /\ calls[c].pc = "importPath"
  /\ pathModule' = IF pathImportable THEN "path" ELSE "null"
  /\ calls' = [calls EXCEPT ![c] = resumed(@, fsPromises, pathModule')]
  /\ configCache' = cacheAfterLoad(calls'[c])
  /\ UNCHANGED <<runtime, mergeCall, fsPromises, disk, writes, clears>>

\* the readdir of one directory completes
ReaddirDone(c, r) ==
  /\ calls[c].dirs[r].stage = "listing"
  /\ LET dir == listed(calls[c].dirs[r])
         issued == Cardinality({i \in DOMAIN dir.configs : dir.configs[i].status = "pending"})
     IN calls' = [calls EXCEPT ![c] =
                    settle([@ EXCEPT !.dirs[r] = dir, !.readFileCalls = @ + issued])]
  /\ configCache' = cacheAfterLoad(calls'[c])
  /\ UNCHANGED <<runtime, mergeCall, fsPromises, pathModule, disk, writes, clears>>

\* the readFile of one listed file completes
ReadFileDone(c, r, i) ==
  /\ calls[c].dirs[r].stage = "reading"
  /\ i \in DOMAIN calls[c].dirs[r].configs
  /\ calls[c].dirs[r].configs[i].status = "pending"
  /\ LET dir == calls[c].dirs[r]
         read == loadFile(dir.path, dir.jsonFiles[i])
     IN calls' = [calls EXCEPT ![c] =
                    settle([@ EXCEPT !.dirs[r] = awaitConfigs([dir EXCEPT !.configs[i] = read,
                                                       !.completed = Append(@, i)])])]
  /\ configCache' = cacheAfterLoad(calls'[c])
  /\ UNCHANGED <<runtime, mergeCall, fsPromises, pathModule, disk, writes, clears>>

\* clearConfigCache()
clearConfigCache ==
  /\ clears < MaxClears
  /\ Quiescent
  /\ \E c \in Calls : calls[c].pc = "done"
  /\ configCache' = EmptyConfig
  /\ clears' = clears + 1
  /\ UNCHANGED <<runtime, mergeCall, fsPromises, pathModule, disk, calls, writes>>

\* Someone overwrites a configuration file between two loads.
WriteFile(path, i, text) ==
  /\ writes < MaxWrites
  /\ Quiescent
  /\ \E c \in Calls : calls[c].pc = "done"
  /\ \E c \in Calls : calls[c].pc = "idle"
  /\ path \in DOMAIN disk
  /\ i \in DOMAIN disk[path].entries
  /\ endsWithJson(disk[path].entries[i].name)
  /\ disk[path].entries[i].present
  /\ disk[path].entries[i].text # text
  /\ disk' = [disk EXCEPT ![path].entries[i].text = text]
  /\ writes' = writes + 1
  /\ UNCHANGED <<runtime, mergeCall, fsPromises, pathModule, configCache, calls, clears>>

\* ------------------------------------------------------------------ initial states

JsonNames == <<"a.json", "b.json", "c.json", "d.json">>

OtherNames == <<"README.md", "notes.txt", "a.json.bak", "x.yaml">>

FileTexts == {TextP, TextQ, TextGarbage}

EntryKinds == FileTexts \cup {"dangling", "other"}

\* the listing whose i-th entry is of the i-th kind
Listing(kinds) ==
  [i \in DOMAIN kinds |->
     CASE kinds[i] = "other" -> RegularFile(OtherNames[i], "notes")
       [] kinds[i] = "dangling" -> DanglingFile(JsonNames[i])
       [] OTHER -> RegularFile(JsonNames[i], kinds[i])]

DirStates ==
  {AbsentDir, DeniedDir}
    \cup {PresentDir(Listing(kinds)) : kinds \in UNION {[1..n -> EntryKinds] : n \in 0..MaxFiles}}

\* the directories of the contexts that never reach the disk
FewDirStates == {PresentDir(Listing(<<TextP>>)), PresentDir(Listing(<<TextQ, TextP>>))}

NodeEnvValues == {UnsetEnv, "production"}

Init ==
  /\ windowDefined \in BOOLEAN
  /\ documentDefined \in BOOLEAN
  /\ fsImportable \in BOOLEAN
  /\ pathImportable \in BOOLEAN
  /\ nodeEnv \in NodeEnvValues
  /\ fsPromises = "null"
  /\ pathModule = "null"
  /\ configCache = EmptyConfig
  /\ \E d \in DirStates, e \in DirStates :
       /\ \/ {d, e} \subseteq FewDirStates
          \/ /\ ~windowDefined /\ ~documentDefined /\ fsImportable /\ pathImportable
             /\ nodeEnv = "production"
       /\ disk = [p \in {<<"config", "default">>,
                         <<"config", IF nodeEnv = UnsetEnv THEN "development" ELSE nodeEnv>>}
                    |-> IF p = <<"config", "default">> THEN d ELSE e]
  /\ calls = [c \in Calls |-> IdleCall]
  /\ writes = 0
  /\ clears = 0
  /\ target = EmptyConfig
  /\ source = EmptyConfig
  /\ merged = EmptyConfig
  /\ returned = FALSE
  /\ outcome = NoOutcome
  /\ heapCall = NoHeapCall
  /\ assoc = NoAssoc

Next ==
  \/ \E c \in Calls, l \in Loaders : StartLoad(c, l)
  \/ \E c \in Calls : ImportFsDone(c)
  \/ \E c \in Calls : ImportPathDone(c)
  \/ \E c \in Calls, r \in Roles : ReaddirDone(c, r)
  \/ \E c \in Calls, r \in Roles, i \in 1..MaxFiles : ReadFileDone(c, r, i)
  \/ clearConfigCache
  \/ \E path \in DOMAIN disk, i \in 1..MaxFiles, text \in FileTexts : WriteFile(path, i, text)

Spec == Init /\ [][Next]_vars

\* ------------------------------------------------------------------ every loader, every NODE_ENV

EmptyEnv == ""

\* configDir itself: a .json file next to the layer directories
ConfigDirState == PresentDir(Listing(<<TextQ, "other">>))

WideDirStates ==
  {AbsentDir, DeniedDir} \cup
  {PresentDir(Listing(kinds)) :
     kinds \in {<<TextP>>, <<TextR>>, <<TextP, TextR>>, <<TextGarbage, TextP>>, <<"dangling">>}}

\* Loaders of well-formed and malformed schemas, NODE_ENV unset, empty or
\* set, in every context.
InitWide ==
  /\ windowDefined \in BOOLEAN
  /\ documentDefined \in BOOLEAN
  /\ fsImportable \in BOOLEAN
  /\ pathImportable \in BOOLEAN
  /\ nodeEnv \in {UnsetEnv, EmptyEnv, "production"}
  /\ fsPromises = "null"
  /\ pathModule = "null"
  /\ configCache = EmptyConfig
  /\ \E d \in WideDirStates, e \in WideDirStates :
       /\ \/ d = PresentDir(Listing(<<TextP>>)) /\ e = d
          \/ ~(windowDefined /\ documentDefined) /\ fsImportable /\ pathImportable
       /\ disk = [p \in {<<"config">>, <<"config", "default">>,
                         <<"config", IF nodeEnv = "production" THEN nodeEnv ELSE "development">>}
                    |-> CASE p = <<"config">> -> ConfigDirState
                          [] p = <<"config", "default">> -> d
                          [] OTHER -> e]
  /\ calls = [c \in Calls |-> IdleCall]
  /\ writes = 0
  /\ clears = 0
  /\ target = EmptyConfig
  /\ source = EmptyConfig
  /\ merged = EmptyConfig
  /\ returned = FALSE
  /\ outcome = NoOutcome
  /\ heapCall = NoHeapCall
  /\ assoc = NoAssoc

NextWide ==
  \/ \E c \in Calls, l \in AllLoaders : StartLoad(c, l)
  \/ \E c \in Calls : ImportFsDone(c)
  \/ \E c \in Calls : ImportPathDone(c)
  \/ \E c \in Calls, r \in Roles : ReaddirDone(c, r)
  \/ \E c \in Calls, r \in Roles, i \in 1..MaxFiles : ReadFileDone(c, r, i)

SpecWide == InitWide /\ [][NextWide]_vars


\* ------------------------------------------------------------------ concurrent loads

\* load() called while other calls are in flight
LoadConcurrently(c, l) ==
  /\ calls[c].pc = "idle"
  /\ \A p \in Calls : p < c => calls[p].pc # "idle"
  /\ calls' = [calls EXCEPT ![c] = load(c, l)]
  /\ configCache' = cacheAfterLoad(calls'[c])
  /\ UNCHANGED <<runtime, mergeCall, fsPromises, pathModule, disk, writes, clears>>

ConcurrentDirStates ==
  {AbsentDir, DeniedDir} \cup
  {PresentDir(Listing(kinds)) :
     kinds \in {<<TextP>>, <<TextQ, TextP>>, <<"dangling", TextGarbage>>, <<TextGarbage>>}}

InitConcurrent ==
  /\ windowDefined \in BOOLEAN
  /\ documentDefined \in BOOLEAN
  /\ fsImportable \in BOOLEAN
  /\ pathImportable \in BOOLEAN
  /\ nodeEnv \in NodeEnvValues
  /\ fsPromises = "null"
  /\ pathModule = "null"
  /\ configCache = EmptyConfig
  /\ \E d \in ConcurrentDirStates, e \in ConcurrentDirStates :
       /\ \/ d = PresentDir(Listing(<<TextP>>)) /\ e = d
          \/ /\ ~(windowDefined /\ documentDefined) /\ fsImportable /\ pathImportable
             /\ nodeEnv = "production"
       /\ disk = [p \in {<<"config", "default">>,
                         <<"config", IF nodeEnv = UnsetEnv THEN "development" ELSE nodeEnv>>}
                    |-> IF p = <<"config", "default">> THEN d ELSE e]
  /\ calls = [c \in Calls |-> IdleCall]
  /\ writes = 0
  /\ clears = 0
  /\ target = EmptyConfig
  /\ source = EmptyConfig
  /\ merged = EmptyConfig
  /\ returned = FALSE
  /\ outcome = NoOutcome
  /\ heapCall = NoHeapCall
  /\ assoc = NoAssoc

NextConcurrent ==
  \/ \E c \in Calls, l \in Loaders : LoadConcurrently(c, l)
  \/ \E c \in Calls : ImportFsDone(c)
  \/ \E c \in Calls : ImportPathDone(c)
  \/ \E c \in Calls, r \in Roles : ReaddirDone(c, r)
  \/ \E c \in Calls, r \in Roles, i \in 1..MaxFiles : ReadFileDone(c, r, i)

SpecConcurrent == InitConcurrent /\ [][NextConcurrent]_vars


\* ------------------------------------------------------------------ mergeConfigs on its own

\* The configurations JSON.parse can hand to mergeConfigs: at each key a
\* scalar, null, an array or a mapping; mappings nest three deep under "db".
ScalarValues == {IntV("1"), IntV("2"), Null}

ArrayValues == {Arr(<<IntV("1"), IntV("2")>>), Arr(<<IntV("3")>>)}

\* every function from a subset of keys to values
ConfigsOver(keys, values) == UNION {[ks -> values] : ks \in SUBSET keys}

InnerValues == {IntV("1"), Null, Obj([tls |-> IntV("1")]), Obj([tls |-> Null])}

InnerConfigs == ConfigsOver({"host", "port"}, InnerValues)

DbValues == ScalarValues \cup ArrayValues \cup {Obj(f) : f \in InnerConfigs}

ListValues == ScalarValues \cup ArrayValues \cup {Obj([host |-> IntV("2")])}

Configs ==
  {[k \in dk \cup lk |-> IF k = "db" THEN d[k] ELSE l[k]] :
     <<dk, lk, d, l>> \in
       {<<DOMAIN d, DOMAIN l, d, l>> : d \in ConfigsOver({"db"}, DbValues),
                                       l \in ConfigsOver({"list"}, ListValues)}}

InitMerge ==
  /\ windowDefined = FALSE
  /\ documentDefined = FALSE
  /\ fsImportable = TRUE
  /\ pathImportable = TRUE
  /\ nodeEnv = UnsetEnv
  /\ fsPromises = "null"
  /\ pathModule = "null"
  /\ configCache = EmptyConfig
  /\ disk = [p \in {<<"config", "default">>} |-> AbsentDir]
  /\ calls = [c \in Calls |-> IdleCall]
  /\ writes = 0
  /\ clears = 0
  /\ target \in Configs
  /\ source \in Configs
  /\ merged = EmptyConfig
  /\ returned = FALSE
  /\ outcome = NoOutcome
  /\ heapCall = NoHeapCall
  /\ assoc = NoAssoc

\* this.mergeConfigs(target, source) returns
MergeReturns ==
  /\ ~returned
  /\ merged' = mergeConfigs(target, source)
  /\ returned' = TRUE
  /\ UNCHANGED <<runtime, fsPromises, pathModule, configCache, disk, calls, writes, clears,
                 target, source, outcome, heapCall, assoc>>

NextMerge == MergeReturns

SpecMerge == InitMerge /\ [][NextMerge]_vars


\* ------------------------------------------------------------------ mergeConfigs on references

\* JavaScript objects live on a heap and are held by reference. The heap is
\* the sequence of the objects allocated so far, an address is an index into
\* it; a property holds a scalar, null or an array by value, or the address
\* of an object.
Cell(v) == [kind |-> v.kind, val |-> v.val, items |-> v.items, addr |-> 0]

Ref(a) == [kind |-> "object", val |-> "", items |-> <<>>, addr |-> a]

UndefinedCell == Cell(Undefined)

\* an object literal: a new object at the next address
Allocate(h, object) == [heap |-> Append(h, object), addr |-> Len(h) + 1]

\* what JSON.parse leaves on the heap for a document: its nested objects,
\* then the object itself
RECURSIVE StoreFields(_, _, _, _)
RECURSIVE Store(_, _)
StoreFields(h, config, keys, object) ==
  IF keys = {} THEN [heap |-> h, object |-> object]
  ELSE LET key == CHOOSE k \in keys : TRUE
       IN IF config[key].kind = "object"
          THEN LET inner == Store(h, config[key].fields)
               IN StoreFields(inner.heap, config, keys \ {key},
                              Spread(object, key, Ref(inner.addr)))
          ELSE StoreFields(h, config, keys \ {key}, Spread(object, key, Cell(config[key])))

Store(h, config) ==
  LET stored == StoreFields(h, config, DOMAIN config, EmptyConfig)
  IN Allocate(stored.heap, stored.object)

\* the configuration an address stands for, at every depth
RECURSIVE Deref(_, _)
Deref(h, a) ==
  [k \in DOMAIN h[a] |->
     IF h[a][k].kind = "object" THEN Obj(Deref(h, h[a][k].addr))
     ELSE [kind |-> h[a][k].kind, val |-> h[a][k].val, items |-> h[a][k].items,
           fields |-> EmptyConfig]]

\* a merge that writes the source's values into the target object itself
RECURSIVE assignEntries(_, _, _, _)
RECURSIVE mergeConfigsInPlace(_, _, _)
assignEntries(h, t, s, keys) ==
  IF keys = {} THEN [heap |-> h, addr |-> t]
  ELSE LET key == CHOOSE k \in keys : TRUE
           sourceValue == h[s][key]
           targetValue == IF key \in DOMAIN h[t] THEN h[t][key] ELSE UndefinedCell
       IN IF isConfigObject(sourceValue) /\ isConfigObject(targetValue)
          THEN assignEntries(mergeConfigsInPlace(h, targetValue.addr, sourceValue.addr).heap,
                             t, s, keys \ {key})
          ELSE assignEntries([h EXCEPT ![t] = Spread(@, key, sourceValue)], t, s, keys \ {key})

mergeConfigsInPlace(h, t, s) == assignEntries(h, t, s, DOMAIN h[s])

\* mergeConfigs on the heap: the accumulator starts as { ...target }, every
\* step returns a new object literal { ...merged, [key]: value }
RECURSIVE reduceEntriesOnHeap(_, _, _, _)
RECURSIVE mergeConfigsOnHeap(_, _, _)
reduceEntriesOnHeap(h, m, s, keys) ==
  IF keys = {} THEN [heap |-> h, addr |-> m]
  ELSE LET key == CHOOSE k \in keys : TRUE
           sourceValue == h[s][key]
           targetValue == IF key \in DOMAIN h[m] THEN h[m][key] ELSE UndefinedCell
       IN IF isConfigObject(sourceValue) /\ isConfigObject(targetValue)
          THEN LET inner == mergeConfigsOnHeap(h, targetValue.addr, sourceValue.addr)
                   next == Allocate(inner.heap, Spread(inner.heap[m], key, Ref(inner.addr)))
               IN reduceEntriesOnHeap(next.heap, next.addr, s, keys \ {key})
          ELSE IF sourceValue # UndefinedCell
          THEN LET next == Allocate(h, Spread(h[m], key, sourceValue))
               IN reduceEntriesOnHeap(next.heap, next.addr, s, keys \ {key})
          ELSE reduceEntriesOnHeap(h, m, s, keys \ {key})

mergeConfigsOnHeap(h, t, s) ==
  LET copy == Allocate(h, h[t])
  IN reduceEntriesOnHeap(copy.heap, copy.addr, s, DOMAIN h[s])

\* Two parsed documents on the heap, or one document passed as both arguments.
InitHeap ==
  /\ windowDefined = FALSE
  /\ documentDefined = FALSE
  /\ fsImportable = TRUE
  /\ pathImportable = TRUE
  /\ nodeEnv = UnsetEnv
  /\ fsPromises = "null"
  /\ pathModule = "null"
  /\ configCache = EmptyConfig
  /\ disk = [p \in {<<"config", "default">>} |-> AbsentDir]
  /\ calls = [c \in Calls |-> IdleCall]
  /\ writes = 0
  /\ clears = 0
  /\ target = EmptyConfig
  /\ source = EmptyConfig
  /\ merged = EmptyConfig
  /\ returned = FALSE
  /\ outcome = NoOutcome
  /\ assoc = NoAssoc
  /\ \E t \in Configs, s \in Configs, same \in BOOLEAN :
       LET first == Store(<<>>, t)
           second == Store(first.heap, s)
       IN /\ same => t = s
          /\ heapCall = IF same
                        THEN [NoHeapCall EXCEPT !.before = first.heap, !.heap = first.heap,
                                                !.target = first.addr, !.source = first.addr]
                        ELSE [NoHeapCall EXCEPT !.before = second.heap, !.heap = second.heap,
                                                !.target = first.addr, !.source = second.addr]

\* this.mergeConfigs(target, source) returns, the arguments held by reference
MergeOnHeapReturns ==
  /\ ~heapCall.returned
  /\ LET result == mergeConfigsOnHeap(heapCall.heap, heapCall.target, heapCall.source)
     IN heapCall' = [heapCall EXCEPT !.heap = result.heap, !.merged = result.addr,
                                     !.returned = TRUE]
  /\ UNCHANGED <<runtime, fsPromises, pathModule, configCache, disk, calls, writes, clears,
                 target, source, merged, returned, outcome, assoc>>

NextHeap == MergeOnHeapReturns

SpecHeap == InitHeap /\ [][NextHeap]_vars


\* ------------------------------------------------------------------ groupings of mergeConfigs

\* files in the documents handed to the groupings
MaxDocs == 3

\* Documents with "db" a scalar, null, an array, or a mapping up to two
\* deep, and "list" a scalar or a mapping.
AssocDbValues ==
  {IntV("1"), Null, Arr(<<IntV("1")>>), Obj(EmptyConfig),
   Obj([host |-> IntV("1")]), Obj([port |-> Null]),
   Obj([host |-> Obj([tls |-> IntV("1")])]), Obj([host |-> Obj([tls |-> Null])])}

AssocListValues == {IntV("2"), Obj([host |-> IntV("2")])}

AssocConfigs ==
  {[k \in dk \cup lk |-> IF k = "db" THEN d[k] ELSE l[k]] :
     <<dk, lk, d, l>> \in
       {<<DOMAIN d, DOMAIN l, d, l>> : d \in ConfigsOver({"db"}, AssocDbValues),
                                       l \in ConfigsOver({"list"}, AssocListValues)}}

\* MaxDocs parsed documents, the first m of them from the default directory
\* and the others from the environment directory
InitAssoc ==
  /\ windowDefined = FALSE
  /\ documentDefined = FALSE
  /\ fsImportable = TRUE
  /\ pathImportable = TRUE
  /\ nodeEnv = UnsetEnv
  /\ fsPromises = "null"
  /\ pathModule = "null"
  /\ configCache = EmptyConfig
  /\ disk = [p \in {<<"config", "default">>} |-> AbsentDir]
  /\ calls = [c \in Calls |-> IdleCall]
  /\ writes = 0
  /\ clears = 0
  /\ target = EmptyConfig
  /\ source = EmptyConfig
  /\ merged = EmptyConfig
  /\ returned = FALSE
  /\ outcome = NoOutcome
  /\ heapCall = NoHeapCall
  /\ \E files \in [1..MaxDocs -> AssocConfigs], m \in 0..MaxDocs :
       assoc = [NoAssoc EXCEPT !.files = files, !.m = m]

\* mergeConfigs applied in both groupings to the first three documents, and
\* the documents aggregated per directory and merged as loadAndMergeConfigs
\* does
MergeGroupingsReturn ==
  /\ ~assoc.returned
  /\ LET A == assoc.files[1]
         B == assoc.files[2]
         C == assoc.files[3]
         defaultFiles == SubSeq(assoc.files, 1, assoc.m)
         envFiles == SubSeq(assoc.files, assoc.m + 1, Len(assoc.files))
     IN assoc' = [assoc EXCEPT
                    !.left = mergeConfigs(mergeConfigs(A, B), C),
                    !.right = mergeConfigs(A, mergeConfigs(B, C)),
                    !.layered =
                      loadAndMergeConfigs(Fulfilled(reduceConfigs(EmptyConfig, defaultFiles)),
                                          Fulfilled(reduceConfigs(EmptyConfig, envFiles))).value,
                    !.returned = TRUE]
  /\ UNCHANGED <<runtime, fsPromises, pathModule, configCache, disk, calls, writes, clears,
                 target, source, merged, returned, outcome, heapCall>>

NextAssoc == MergeGroupingsReturn

SpecAssoc == InitAssoc /\ [][NextAssoc]_vars


\* ------------------------------------------------------------------ main.ts: loadConfig

\* loadFile of main.ts: the parsed file, or {} when it cannot be read or parsed
loadFileSync(dirPath, file) ==
  LET read == readFile(dirPath, file)
  IN IF ~read.ok THEN EmptyConfig
     ELSE IF JSONparse(read.content).status = "rejected" THEN EmptyConfig
     ELSE JSONparse(read.content).value

\* a merge of main.ts that goes into nested mappings
spreadConfigsDeep(config, file) == mergeConfigs(config, file)

\* { ...config, ...loadFile(filePath) }
spreadConfigs(config, file) ==
  LET step(acc, key) == Spread(acc, key, file[key])
  IN ReduceEntries(step, config, DOMAIN file)

\* files.forEach((file) => { config = { ...config, ...loadFile(filePath) } })
RECURSIVE forEachFile(_, _, _)
forEachFile(config, dirPath, files) ==
  IF files = <<>> THEN config
  ELSE forEachFile(spreadConfigs(config, loadFileSync(dirPath, Head(files))),
                   dirPath, Tail(files))

\* process.env.NODE_ENV || 'dev'
envOrDev == IF nodeEnv \in {UnsetEnv, EmptyEnv} THEN "dev" ELSE nodeEnv

\* loadConfig({ schema: the schema of l, configDir: 'config' }) of main.ts
loadConfig(l) ==
  LET schema == options(l).schema
      defaultConfigPath == pathJoin(<<"config">>, "default")
      envConfigPath == pathJoin(<<"config">>, envOrDev)
      defaultLs == readdir(defaultConfigPath)
      envLs == readdir(envConfigPath)
      defaults == forEachFile(EmptyConfig, defaultConfigPath,
                              SelectSeq(defaultLs.files, endsWithJson))
      config == forEachFile(defaults, envConfigPath, SelectSeq(envLs.files, endsWithJson))
  IN IF ~compiles(schema) THEN Rejected(NodeError("Error"))
     ELSE IF ~defaultLs.ok THEN Rejected(defaultLs.error)
     ELSE IF ~envLs.ok THEN Rejected(envLs.error)
     ELSE IF ~Satisfies(schema, config) THEN Rejected(NodeError("Error"))
     ELSE Fulfilled(config)

InitSync ==
  /\ windowDefined = FALSE
  /\ documentDefined = FALSE
  /\ fsImportable = TRUE
  /\ pathImportable = TRUE
  /\ nodeEnv \in {UnsetEnv, EmptyEnv, "production"}
  /\ fsPromises = "null"
  /\ pathModule = "null"
  /\ configCache = EmptyConfig
  /\ \E d \in DirStates, e \in DirStates :
       disk = [p \in {<<"config", "default">>, <<"config", envOrDev>>}
                 |-> IF p = <<"config", "default">> THEN d ELSE e]
  /\ calls = [c \in Calls |-> IdleCall]
  /\ writes = 0
  /\ clears = 0
  /\ target = EmptyConfig
  /\ source = EmptyConfig
  /\ merged = EmptyConfig
  /\ returned = FALSE
  /\ outcome = NoOutcome
  /\ heapCall = NoHeapCall
  /\ assoc = NoAssoc

\* loadConfig(options) returns or throws
LoadConfigReturns(l) ==
  /\ outcome = NoOutcome
  /\ outcome' = [loader |-> l, result |-> loadConfig(l)]
  /\ UNCHANGED <<runtime, fsPromises, pathModule, configCache, disk, calls, writes, clears,
                 target, source, merged, returned, heapCall, assoc>>

NextSync == \E l \in AllLoaders : LoadConfigReturns(l)

SpecSync == InitSync /\ [][NextSync]_vars


\* ------------------------------------------------------------------ properties

\* The right-biased recursive merge, stated key by key.
RECURSIVE RightBiased(_, _)
RightBiased(A, B) ==
  [k \in DOMAIN A \cup DOMAIN B |->
     IF k \in DOMAIN A /\ k \in DOMAIN B /\ A[k].kind = "object" /\ B[k].kind = "object"
     THEN Obj(RightBiased(A[k].fields, B[k].fields))
     ELSE IF k \in DOMAIN B THEN B[k] ELSE A[k]]

RECURSIVE FoldRightBiased(_, _)
FoldRightBiased(acc, docs) ==
  IF docs = <<>> THEN acc ELSE FoldRightBiased(RightBiased(acc, Head(docs)), Tail(docs))

IsJsonEntry(entry) == endsWithJson(entry.name)

\* the .json entries of the directory now on disk, in listing order
JsonEntries(path) == SelectSeq(DirAt(path).entries, IsJsonEntry)

Readable(entry) == entry.present /\ JSONparse(entry.text).status = "fulfilled"

\* what the directory now on disk amounts to: its documents folded in listing order
Aggregate(path) ==
  LET entries == JsonEntries(path)
  IN FoldRightBiased(EmptyConfig,
       [i \in DOMAIN entries |->
          IF Readable(entries[i]) THEN JSONparse(entries[i].text).value ELSE EmptyConfig])

\* the call went to the disk, and the disk is as the call saw it
OnDisk(call) ==
  /\ call.dirs["default"].stage \notin {"idle", "skipped"}
  /\ call.dirs["env"].stage \notin {"idle", "skipped"}
  /\ call.writesSeen = writes

\* what validation makes of a configuration under the loader's schema
Validated(l, config) ==
  IF Satisfies(options(l).schema, config) THEN Fulfilled(config)
  ELSE [Rejected(<<"VALIDATION_ERROR">>) EXCEPT
          !.errors = AjvErrors(options(l).schema, Obj(config), <<>>)]

\* C1: every value a load() returns satisfies the schema of the loader it was
\* called on, whatever loads and cache clears came before.
C1_ReturnedSatisfiesSchema ==
  \A c \in Calls :
    calls[c].result.status = "fulfilled"
      => Satisfies(options(calls[c].loader).schema, calls[c].result.value)

\* Two loaders on the same directories: A returned a configuration that B's
\* schema rejects, and B's load failed validation.
C1_Witness ==
  \E c1 \in Calls, c2 \in Calls :
    /\ calls[c1].loader = "A" /\ calls[c1].result.status = "fulfilled"
    /\ calls[c1].result.value # EmptyConfig
    /\ ~Satisfies(SchemaB, calls[c1].result.value)
    /\ calls[c2].loader = "B" /\ calls[c2].result.status = "rejected"
    /\ calls[c2].result.reason = <<"VALIDATION_ERROR">>
    /\ calls[c1].env = calls[c2].env
    /\ writes = 0

\* C2: mergeConfigs(A, B) holds exactly the keys of A and B; at a key where
\* both hold mappings it holds their merge, otherwise B's value when B has the
\* key (arrays and null replace), otherwise A's.
C2_MergeIsRightBiased == returned => merged = RightBiased(target, source)

\* Both arrays at "list" (replaced wholesale), both mappings at "db" (composed).
C2_Witness ==
  /\ returned
  /\ target = [list |-> Arr(<<IntV("1"), IntV("2")>>), db |-> Obj([host |-> IntV("1")])]
  /\ source = [list |-> Arr(<<IntV("3")>>), db |-> Obj([port |-> Null])]
  /\ merged = [list |-> Arr(<<IntV("3")>>), db |-> Obj([host |-> IntV("1"), port |-> Null])]

\* C3: on the filesystem path a successful load() returns the right-biased
\* merge of the default directory's aggregate with the environment
\* directory's: a non-mapping value of the environment layer wins, a key of
\* the default layer alone is kept.
C3_LayeredResult ==
  \A c \in Calls :
    LET call == calls[c]
        D == Aggregate(call.dirs["default"].path)
        E == Aggregate(call.dirs["env"].path)
    IN call.pc = "done" /\ call.result.status = "fulfilled" /\ OnDisk(call)
         => /\ call.result.value = RightBiased(D, E)
            /\ \A k \in DOMAIN E : E[k].kind # "object" => call.result.value[k] = E[k]
            /\ \A k \in DOMAIN D \ DOMAIN E : call.result.value[k] = D[k]

\* default/a.json = P, production/a.json = Q: debug overridden, port kept, db composed.
C3_Witness ==
  \E c \in Calls :
    /\ calls[c].pc = "done" /\ OnDisk(calls[c])
    /\ Aggregate(calls[c].dirs["default"].path) = DocP
    /\ Aggregate(calls[c].dirs["env"].path) = DocQ
    /\ calls[c].result =
         Fulfilled([port |-> IntV("8080"), debug |-> BoolV("true"),
                    db |-> Obj([host |-> StrV("h"), port |-> IntV("5432")])])

\* C4: a directory's configuration is the fold of its files in listing order
\* from the empty tree, in whatever order the reads completed.
C4_FoldInListingOrder ==
  \A c \in Calls, r \in Roles :
    LET dir == calls[c].dirs[r]
    IN dir.stage = "reading" /\ dir.promise.status = "fulfilled"
       /\ calls[c].writesSeen = writes
         => dir.promise.value = Aggregate(dir.path)

\* Two files that disagree on "debug"; the later-listed one was read first and
\* still wins.
C4_Witness ==
  \E c \in Calls, r \in Roles :
    LET dir == calls[c].dirs[r]
    IN /\ dir.promise.status = "fulfilled" /\ calls[c].writesSeen = writes
       /\ Len(dir.jsonFiles) = 2 /\ dir.completed = <<2, 1>>
       /\ dir.configs[1].value["debug"] # dir.configs[2].value["debug"]
       /\ dir.promise.value["debug"] = dir.configs[2].value["debug"]

\* C5: a directory that does not exist contributes the empty configuration and
\* the load goes on to validate what the other directory gave; with both
\* missing, a loader whose schema has no required field returns {}.
C5_MissingDirectoryIsEmpty ==
  \A c \in Calls, r \in Roles :
    LET call == calls[c]
        dir == call.dirs[r]
        other == call.dirs[CHOOSE o \in Roles : o # r]
    IN OnDisk(call) /\ dir.stage # "listing" /\ ~DirAt(dir.path).exists
         => /\ dir.promise = Fulfilled(EmptyConfig)
            /\ other.promise.status = "fulfilled"
                 => /\ call.pc = "done"
                    /\ call.result = Validated(call.loader, other.promise.value)
            /\ ~DirAt(other.path).exists /\ other.stage # "listing" /\ call.loader = "A"
                 => call.result = Fulfilled(EmptyConfig)

\* No default directory, an environment directory with a document: loader A
\* returns that document.
C5_Witness ==
  \E c \in Calls :
    /\ calls[c].pc = "done" /\ OnDisk(calls[c]) /\ calls[c].loader = "A"
    /\ ~DirAt(calls[c].dirs["default"].path).exists
    /\ DirAt(calls[c].dirs["env"].path).exists
    /\ calls[c].result.status = "fulfilled"
    /\ calls[c].result.value # EmptyConfig


\* the directory a layer of the call is read from
LayerPath(call, r) ==
  pathJoin(options(call.loader).configDir, IF r = "default" THEN "default" ELSE call.env)

\* the runtime lets load() reach the disk
DiskReachable == IS_SERVER /\ fsImportable /\ pathImportable

\* every directory of the call is missing or listable, and every .json file
\* in them is there and parses
AllReadable(call) ==
  \A r \in Roles :
    LET dir == DirAt(LayerPath(call, r))
    IN \/ ~dir.exists
       \/ /\ dir.listable
          /\ \A i \in DOMAIN JsonEntries(LayerPath(call, r)) :
               Readable(JsonEntries(LayerPath(call, r))[i])

\* what a load of the disk as it is now has to give
Recomputed(call) ==
  Validated(call.loader,
            RightBiased(Aggregate(LayerPath(call, "default")),
                        Aggregate(LayerPath(call, "env"))))

\* C6: a listed .json file that is missing or is not valid JSON at read time
\* makes load() fail with the FILE_READ_ERROR that loadFile raised, unchanged.
C6_FileReadErrorReachesCaller ==
  \A c \in Calls, r \in Roles :
    LET call == calls[c]
        dir == call.dirs[r]
        other == call.dirs[CHOOSE o \in Roles : o # r]
        failed == {i \in DOMAIN dir.configs : dir.configs[i].status = "rejected"}
    IN call.pc = "done" /\ failed # {} /\ other.promise.status # "rejected"
         => /\ call.result.status = "rejected"
            /\ Head(call.result.reason) = "FILE_READ_ERROR"
            /\ \E i \in failed : call.result.reason = dir.configs[i].reason

\* C7: with caching enabled and nothing changed in between, the second of two
\* sequential loads of the same (configDir, environment) returns an equal
\* result without listing a directory or reading a file.
C7_SecondLoadHitsCache ==
  \A c1 \in Calls, c2 \in Calls :
    /\ c1 \in calls[c2].after /\ calls[c2].pc = "done"
    /\ options(calls[c1].loader).cache /\ options(calls[c2].loader).cache
    /\ cacheKey(calls[c1]) = cacheKey(calls[c2])
    /\ calls[c1].result.status = "fulfilled"
    /\ calls[c2].writesSeen = calls[c1].writesSeen
    /\ calls[c2].clearsSeen = calls[c1].clearsSeen
    => /\ calls[c2].result = calls[c1].result
       /\ calls[c2].readdirCalls = 0
       /\ calls[c2].readFileCalls = 0

\* C8: a load() that starts after clearConfigCache() lists both directories
\* and reads every listed .json file again, and its outcome is that of the
\* files as they now are; after a clear the cache holds no entry of any loader
\* until a load returns.
C8_LoadAfterClearRecomputes ==
  /\ \A c \in Calls :
       LET call == calls[c]
       IN /\ call.pc = "done" /\ ~InFlight(call) /\ call.clearsSeen > 0
          /\ DiskReachable /\ call.writesSeen = writes
          => /\ call.readdirCalls = 2
             /\ call.readFileCalls = Len(JsonEntries(LayerPath(call, "default")))
                                       + Len(JsonEntries(LayerPath(call, "env")))
             /\ call.result.status = "fulfilled" => call.result = Recomputed(call)
             /\ AllReadable(call) => call.result = Recomputed(call)
  /\ clears > 0 /\ (\A c \in Calls : calls[c].pc = "done" => calls[c].clearsSeen < clears)
       => configCache = EmptyConfig

\* Loader A returned a configuration; the cache was cleared and a file was
\* overwritten; loader A's next load read the disk and returned the new one.
C8_Witness ==
  \E c1 \in Calls, c2 \in Calls :
    /\ c1 \in calls[c2].after
    /\ calls[c1].loader = "A" /\ calls[c2].loader = "A"
    /\ calls[c1].result.status = "fulfilled" /\ calls[c2].result.status = "fulfilled"
    /\ calls[c2].pc = "done" /\ ~InFlight(calls[c2])
    /\ calls[c2].clearsSeen = 1 /\ calls[c1].clearsSeen = 0
    /\ calls[c2].writesSeen = 1 /\ writes = 1
    /\ calls[c2].result # calls[c1].result
    /\ calls[c2].readdirCalls = 2 /\ calls[c2].readFileCalls > 0

\* an entry of the cache is the validated result of a load of a caching loader
CacheEntriesAreLoaded ==
  \A k \in DOMAIN configCache :
    \E c \in Calls :
      /\ calls[c].pc = "done" /\ calls[c].result.status = "fulfilled"
      /\ options(calls[c].loader).cache /\ cacheKey(calls[c]) = k
      /\ configCache[k] = calls[c].result.value
      /\ Satisfies(options(calls[c].loader).schema, configCache[k])

\* a step leaves the cache alone, empties it in clearConfigCache, or adds the
\* entry of a caching loader's load that just returned a configuration
CacheStep ==
  \/ configCache' = configCache
  \/ clears' = clears + 1 /\ configCache' = EmptyConfig
  \/ \E c \in Calls :
       /\ calls[c].pc # "done" /\ calls'[c].pc = "done"
       /\ calls'[c].result.status = "fulfilled" /\ options(calls'[c].loader).cache
       /\ DOMAIN configCache' = DOMAIN configCache \cup {cacheKey(calls'[c])}
       /\ \A k \in DOMAIN configCache \ {cacheKey(calls'[c])} : configCache'[k] = configCache[k]

\* C9: every cache entry was made by a successful load() of a loader with
\* caching enabled and holds a validated configuration; a load that fails or
\* runs without caching leaves the cache as it is; a step only adds one entry
\* or clears the cache whole.
C9_CacheLifecycle == [](CacheEntriesAreLoaded) /\ [][CacheStep]_vars

\* A load failed, the cache was cleared, a loader without caching returned a
\* configuration: the cache is as it was.
C9_Witness ==
  \E c1 \in Calls, c2 \in Calls :
    /\ calls[c1].pc = "done" /\ calls[c1].result.status = "rejected"
    /\ calls[c2].pc = "done" /\ calls[c2].result.status = "fulfilled"
    /\ ~options(calls[c2].loader).cache
    /\ calls[c2].result.value # EmptyConfig
    /\ clears = 1
    /\ configCache = EmptyConfig

\* C10: where the disk is out of reach (isSSR() false, or a server module
\* failed to import) load() lists nothing, reads nothing and validates the
\* empty configuration, which a schema without required fields accepts; no
\* load lists or reads before the guard has passed.
C10_ContextGuard ==
  \A c \in Calls :
    LET call == calls[c]
    IN /\ call.pc # "idle" /\ (~isSSR \/ ~fsImportable \/ ~pathImportable)
            => /\ call.readdirCalls = 0 /\ call.readFileCalls = 0
               /\ call.pc = "done" => call.result = Validated(call.loader, EmptyConfig)
               /\ call.pc = "done" /\ call.loader = "A" => call.result = Fulfilled(EmptyConfig)
       /\ call.readdirCalls > 0 \/ call.readFileCalls > 0
            => isSSR /\ fsPromises # "null" /\ pathModule # "null"

\* In a browser, with configuration files on disk: loader A returns {} and
\* nothing was listed or read.
C10_Witness ==
  \E c \in Calls :
    /\ ~isSSR /\ calls[c].pc = "done" /\ calls[c].loader = "A"
    /\ calls[c].result = Fulfilled(EmptyConfig)
    /\ Aggregate(LayerPath(calls[c], "default")) # EmptyConfig
    /\ calls[c].readdirCalls = 0 /\ calls[c].readFileCalls = 0


\* the document load() hands to validation when everything on its way is
\* readable: the merge of the two layers, or {} where the disk is out of reach
MergedDocument(call) ==
  IF DiskReachable
  THEN RightBiased(Aggregate(LayerPath(call, "default")), Aggregate(LayerPath(call, "env")))
  ELSE EmptyConfig

\* the schema constraints a document violates, one by one: a required key
\* that is missing, a key the schema does not allow, a value of the wrong
\* type at a key or at a key one level down
MissingKeys(schema, doc) == schema.required \ DOMAIN doc

UnknownKeys(schema, doc) ==
  IF schema.additionalProperties THEN {} ELSE DOMAIN doc \ DOMAIN schema.properties

MistypedKeys(schema, doc) ==
  {k \in DOMAIN doc \cap DOMAIN schema.properties :
     ~TypeMatches(doc[k].kind, schema.properties[k].type)}

NestedKeys(schema, doc) ==
  {k \in (DOMAIN doc \cap DOMAIN schema.properties) \ MistypedKeys(schema, doc) :
     schema.properties[k].type = "object"}

ViolationCount(schema, doc) ==
  Cardinality(MissingKeys(schema, doc)) + Cardinality(UnknownKeys(schema, doc))
    + Cardinality(MistypedKeys(schema, doc))
    + Cardinality(UNION {{<<k, j>> : j \in MissingKeys(schema.properties[k], doc[k].fields)
                                       \cup UnknownKeys(schema.properties[k], doc[k].fields)
                                       \cup MistypedKeys(schema.properties[k], doc[k].fields)} :
                           k \in NestedKeys(schema, doc)})

\* C11: when the merged document violates n constraints of the schema, load()
\* fails with VALIDATION_ERROR and its payload lists those n violations, each
\* once: every missing required key, every wrong type, every unknown key.
C11_AllViolationsListed ==
  \A c \in Calls :
    LET call == calls[c]
        schema == options(call.loader).schema
        doc == MergedDocument(call)
        n == ViolationCount(schema, doc)
    IN call.pc = "done" /\ call.loader \in Loaders /\ (DiskReachable => AllReadable(call))
         => /\ n = 0 => call.result = Fulfilled(doc)
            /\ n > 0 =>
                 /\ call.result.status = "rejected"
                 /\ call.result.reason = <<"VALIDATION_ERROR">>
                 /\ Cardinality(call.result.errors) = n
                 /\ \A k \in MissingKeys(schema, doc) :
                      Violation(<<>>, "required", k) \in call.result.errors
                 /\ \A k \in MistypedKeys(schema, doc) :
                      Violation(<<k>>, "type", schema.properties[k].type) \in call.result.errors
                 /\ \A k \in UnknownKeys(schema, doc) :
                      Violation(<<>>, "additionalProperties", k) \in call.result.errors

\* The merged document is {"debug": "yes"} under the schema that requires
\* port and debug: a missing required key and a wrong type, two entries.
C11_Witness ==
  \E c \in Calls :
    /\ calls[c].pc = "done" /\ calls[c].loader = "B" /\ DiskReachable
    /\ AllReadable(calls[c]) /\ MergedDocument(calls[c]) = DocR
    /\ calls[c].result.reason = <<"VALIDATION_ERROR">>
    /\ calls[c].result.errors = {Violation(<<>>, "required", "port"),
                                 Violation(<<"debug">>, "type", "boolean")}


\* C12: a loader constructed on a malformed schema fails at construction with
\* INVALID_SCHEMA, so no load() ever runs on one, and no load() compiles the
\* schema.
C12_SchemaCompiledAtConstruction ==
  /\ \A l \in AllLoaders :
       ~compiles(options(l).schema)
         => constructor(l).thrown # <<>> /\ Head(constructor(l).thrown) = "INVALID_SCHEMA"
  /\ \A c \in Calls :
       /\ calls[c].pc # "idle" => compiles(options(calls[c].loader).schema)
       /\ calls[c].compileCalls = 0

\* the environment the indicator selects: NODE_ENV when it is set to a
\* name, the loader's defaultEnv when it is unset or empty
SelectedEnv(l) == IF nodeEnv \in {UnsetEnv, EmptyEnv} THEN options(l).defaultEnv ELSE nodeEnv

\* C13: load() resolves the environment to NODE_ENV when set and to defaultEnv
\* when unset or empty; the environment directory is <configDir>/<environment>
\* and never configDir itself.
C13_EnvironmentSelection ==
  \A c \in Calls :
    LET call == calls[c]
        configDir == options(call.loader).configDir
    IN call.pc # "idle"
         => /\ call.env = SelectedEnv(call.loader)
            /\ call.dirs["env"].stage # "idle"
                 => /\ call.dirs["env"].path = Append(configDir, SelectedEnv(call.loader))
                    /\ call.dirs["env"].path # configDir

\* C14: every failure of load() is a Configuration Error with a declared tag:
\* a Configuration Error keeps its tag, anything else (an Error thrown while
\* compiling or running the schema) arrives wrapped as LOAD_ERROR.
C14_EveryFailureTagged ==
  \A c \in Calls :
    LET call == calls[c]
    IN call.pc = "done" /\ call.result.status = "rejected"
         => /\ IsConfigurationError(call.result.reason)
            /\ ~compiles(options(call.loader).schema)
                 => call.result.reason = <<"LOAD_ERROR", "Error">>


\* C15: in every context, window defined or not, document defined or not,
\* exactly one of IS_SERVER and IS_BROWSER is true, in each env.checker.
C15_ExactlyOneContext ==
  /\ IS_SERVER # IS_BROWSER
  /\ IS_SERVER2 # IS_BROWSER2
  /\ isServer # isBrowser
  /\ ~windowDefined /\ ~documentDefined => IS_SERVER2 /\ ~IS_BROWSER2 /\ IS_SERVER /\ ~IS_BROWSER
  /\ windowDefined /\ documentDefined => ~IS_SERVER2 /\ IS_BROWSER2 /\ ~IS_SERVER /\ IS_BROWSER


\* the documents of a directory's .json files in listing order, {} for a
\* file that cannot be read or parsed
Documents(path) ==
  LET entries == JsonEntries(path)
  IN [i \in DOMAIN entries |->
        IF Readable(entries[i]) THEN JSONparse(entries[i].text).value ELSE EmptyConfig]

\* the value at key k of the last document that has k
LastValue(docs, k) ==
  docs[CHOOSE i \in DOMAIN docs :
         /\ k \in DOMAIN docs[i]
         /\ \A j \in DOMAIN docs : j > i => k \notin DOMAIN docs[j]][k]

\* C16: loadConfig of main.ts applies the default files and then the
\* environment files in order; each top-level key holds, whole, the value of
\* the last file that has it; it returns that object when the schema accepts
\* it and throws otherwise.
C16_SyncMergeIsAtomic ==
  LET docs == Documents(<<"config", "default">>) \o Documents(<<"config", envOrDev>>)
      keys == UNION {DOMAIN docs[i] : i \in DOMAIN docs}
      expected == [k \in keys |-> LastValue(docs, k)]
      schema == options(outcome.loader).schema
  IN /\ outcome # NoOutcome /\ compiles(schema)
     /\ DirAt(<<"config", "default">>).listable /\ DirAt(<<"config", envOrDev>>).listable
     => /\ Satisfies(schema, expected) => outcome.result = Fulfilled(expected)
        /\ ~Satisfies(schema, expected) => outcome.result = Rejected(<<"Error">>)

\* default/a.json = P, <env>/a.json = Q: debug is Q's, port is P's, and db is
\* Q's mapping whole, without P's host.
C16_Witness ==
  /\ outcome.loader = "A"
  /\ Documents(<<"config", "default">>) = <<DocP>>
  /\ Documents(<<"config", envOrDev>>) = <<DocQ>>
  /\ outcome.result = Fulfilled([port |-> IntV("8080"), debug |-> BoolV("true"),
                                 db |-> Obj([port |-> IntV("5432")])])


\* C17: a directory that exists and cannot be listed makes loadConfigFiles,
\* and so load(), fail with DIR_READ_ERROR; a DIR_READ_ERROR comes from a
\* failed listing only, never from the read of a file.
C17_DirReadErrorOnlyForListing ==
  \A c \in Calls, r \in Roles :
    LET call == calls[c]
        dir == call.dirs[r]
    IN /\ dir.stage = "failed" /\ DirAt(dir.path).exists
            => /\ dir.promise.status = "rejected"
               /\ Head(dir.promise.reason) = "DIR_READ_ERROR"
               /\ call.pc = "done" /\ call.result.status = "rejected"
       /\ dir.promise.status = "rejected" /\ Head(dir.promise.reason) = "DIR_READ_ERROR"
            => dir.stage = "failed"
       /\ (/\ call.pc = "done" /\ call.result.status = "rejected"
           /\ call.dirs["default"].stage # "idle"
           /\ Head(call.result.reason) = "DIR_READ_ERROR")
            => \E q \in Roles :
                 call.dirs[q].stage = "failed" /\ DirAt(call.dirs[q].path).exists


\* C18: the merge of the two layers happens once, when both directory
\* aggregations have been fulfilled, in whatever order they finished; when
\* one of them fails the call fails with no merge and no validation.
C18_JoinBeforeMerge ==
  \A c \in Calls :
    LET call == calls[c]
        d == call.dirs["default"].promise
        e == call.dirs["env"].promise
        live == call.dirs["default"].stage # "idle"
    IN /\ call.mergeCalls <= 1
       /\ call.mergeCalls = 1 => call.pc = "done" /\ call.compileCalls = 1
       /\ live /\ call.mergeCalls = 1 => d.status = "fulfilled" /\ e.status = "fulfilled"
       /\ live /\ (d.status # "fulfilled" \/ e.status # "fulfilled")
            => call.mergeCalls = 0 /\ call.compileCalls = 0
       /\ live /\ d.status = "fulfilled" /\ e.status = "fulfilled"
            => call.pc = "done" /\ call.mergeCalls = 1
       /\ live /\ (d.status = "rejected" \/ e.status = "rejected")
            => call.pc = "done" /\ call.result.status = "rejected"

\* The environment directory gave a configuration, the default directory
\* failed: the call failed, nothing was merged or validated.
C18_Witness ==
  \E c \in Calls :
    /\ calls[c].dirs["env"].promise.status = "fulfilled"
    /\ calls[c].dirs["env"].promise.value # EmptyConfig
    /\ calls[c].dirs["default"].promise.status = "rejected"
    /\ calls[c].pc = "done" /\ calls[c].result.status = "rejected"
    /\ calls[c].mergeCalls = 0 /\ calls[c].compileCalls = 0


\* the first read of the directory that failed, in completion order
FirstFailure(dir) ==
  dir.completed[CHOOSE n \in DOMAIN dir.completed :
                  /\ dir.configs[dir.completed[n]].status = "rejected"
                  /\ \A m \in 1..(n - 1) : dir.configs[dir.completed[m]].status = "fulfilled"]

\* C19: a directory's fold happens when all of its reads have been fulfilled;
\* while one is outstanding and none failed it waits; once a read fails the
\* aggregation fails with that first error and holds no configuration, and
\* the call fails.
C19_FoldAfterAllReads ==
  \A c \in Calls, r \in Roles :
    LET dir == calls[c].dirs[r]
        pend == {i \in DOMAIN dir.configs : dir.configs[i].status = "pending"}
        failed == {i \in DOMAIN dir.configs : dir.configs[i].status = "rejected"}
    IN dir.stage = "reading"
         => /\ dir.promise.status = "fulfilled" => pend = {} /\ failed = {}
            /\ failed = {} /\ pend # {} => dir.promise.status = "pending"
            /\ failed = {} /\ pend = {} => dir.promise.status = "fulfilled"
            /\ failed # {}
                 => /\ dir.promise.status = "rejected"
                    /\ dir.promise.value = EmptyConfig
                    /\ \/ dir.promise.reason = dir.configs[FirstFailure(dir)].reason
                       \/ Tail(dir.promise.reason) = dir.configs[FirstFailure(dir)].reason
                    /\ calls[c].pc = "done" /\ calls[c].result.status = "rejected"

\* Two files: the first was read and parsed, then the second failed; the
\* directory and the call failed, the first file's configuration is nowhere.
C19_Witness ==
  \E c \in Calls, r \in Roles :
    LET dir == calls[c].dirs[r]
    IN /\ dir.stage = "reading" /\ Len(dir.configs) = 2 /\ dir.completed = <<1, 2>>
       /\ dir.configs[1].status = "fulfilled" /\ dir.configs[1].value # EmptyConfig
       /\ dir.configs[2].status = "rejected"
       /\ dir.promise.status = "rejected"
       /\ calls[c].result.status = "rejected"


\* the reads a directory of a call has issued: one per listed .json file
ReadsIssued(dir) == IF dir.stage = "reading" THEN Len(dir.jsonFiles) ELSE 0

\* a call lists each directory once and reads each listed file once; a call
\* that follows a failed one runs the whole pipeline on the disk as it is
OncePerCall ==
  \A c \in Calls :
    LET call == calls[c]
        live == call.dirs["default"].stage # "idle"
    IN /\ call.readdirCalls \in {0, 2}
       /\ call.readFileCalls <= 2 * MaxFiles
       /\ live => /\ call.readFileCalls = ReadsIssued(call.dirs["default"])
                                            + ReadsIssued(call.dirs["env"])
                  /\ \A r \in Roles :
                       LET done == call.dirs[r].completed
                       IN /\ Len(done) <= Len(call.dirs[r].jsonFiles)
                          /\ \A n \in DOMAIN done, m \in DOMAIN done : done[n] = done[m] => n = m
       /\ call.result.status = "rejected" => call.pc = "done"
       /\ \A p \in call.after :
            /\ calls[p].result.status = "rejected" /\ call.pc = "done" /\ ~InFlight(call)
            /\ DiskReachable /\ call.writesSeen = writes
            => /\ call.readdirCalls = 2
               /\ call.readFileCalls = Len(JsonEntries(LayerPath(call, "default")))
                                         + Len(JsonEntries(LayerPath(call, "env")))
               /\ AllReadable(call) => call.result = Recomputed(call)

\* a call that has ended keeps its outcome and issues nothing more
EndedStaysEnded ==
  \A c \in Calls :
    calls[c].pc = "done" /\ ~InFlight(calls[c])
      => /\ calls'[c].pc = "done"
         /\ calls'[c].result = calls[c].result
         /\ calls'[c].readdirCalls = calls[c].readdirCalls
         /\ calls'[c].readFileCalls = calls[c].readFileCalls

\* C20: no retries. Within one load() each directory is listed at most once
\* and each listed file read at most once; a failure ends the call, which
\* keeps its error; the next load() of the loader lists and reads everything
\* again and gives what the disk then holds.
C20_NoRetries == [](OncePerCall) /\ [][EndedStaysEnded]_vars

\* Loader A failed on a file that is not JSON; the file was overwritten with
\* a document; loader A's next load listed, read and returned a configuration.
C20_Witness ==
  \E c1 \in Calls, c2 \in Calls :
    /\ c1 \in calls[c2].after
    /\ calls[c1].loader = "A" /\ calls[c2].loader = "A"
    /\ calls[c1].result.status = "rejected"
    /\ calls[c1].readdirCalls = 2 /\ calls[c1].writesSeen = 0
    /\ calls[c2].pc = "done" /\ calls[c2].result.status = "fulfilled"
    /\ calls[c2].writesSeen = 1
    /\ calls[c2].readdirCalls = 2 /\ calls[c2].readFileCalls > 0


\* the calls overlapped: neither had returned when the other began
Overlapped(c1, c2) == c1 # c2 /\ c1 \notin calls[c2].after /\ c2 \notin calls[c1].after

\* the module-level state one load() leaves in this runtime
AfterOneLoad ==
  /\ fsPromises = IF isSSR /\ fsImportable THEN "fs/promises" ELSE "null"
  /\ pathModule = IF isSSR /\ pathImportable THEN "path" ELSE "null"
  /\ configCache = EmptyConfig

\* C21: load() calls of one loader that run concurrently over unchanged files
\* end alike under every interleaving of their imports, listings and reads:
\* all return the same configuration, or all fail, a validation failure with
\* the same violations; what they leave in the shared module state is what
\* one load() leaves.
C21_ConcurrentLoadsAgree ==
  /\ \A c1 \in Calls, c2 \in Calls :
       calls[c1].pc = "done" /\ calls[c2].pc = "done" /\ calls[c1].loader = calls[c2].loader
         => /\ calls[c1].result.status = calls[c2].result.status
            /\ calls[c1].result.value = calls[c2].result.value
            /\ calls[c1].result.errors = calls[c2].result.errors
  /\ (\E c \in Calls : calls[c].pc = "done") /\ (\A c \in Calls : calls[c].pc \in {"idle", "done"})
       => AfterOneLoad

\* Two loads of loader A overlapped, both importing the modules and reading
\* two files each; both returned the same configuration.
C21_Witness ==
  \E c1 \in Calls, c2 \in Calls :
    /\ Overlapped(c1, c2)
    /\ calls[c1].loader = "A" /\ calls[c2].loader = "A"
    /\ calls[c1].pc = "done" /\ calls[c2].pc = "done"
    /\ calls[c1].readFileCalls >= 2 /\ calls[c2].readFileCalls >= 2
    /\ calls[c1].result.status = "fulfilled"
    /\ calls[c1].result.value # EmptyConfig
    /\ calls[c2].result = calls[c1].result
    /\ fsPromises = "fs/promises" /\ pathModule = "path"


\* C22: mergeConfigs leaves its arguments as they were: no object that
\* existed before the call is written, so target and source stand for the
\* same configuration, at every depth, after the call as before it.
C22_ArgumentsUnchanged ==
  heapCall.returned
    => /\ \A a \in DOMAIN heapCall.before : heapCall.heap[a] = heapCall.before[a]
       /\ Deref(heapCall.heap, heapCall.target) = Deref(heapCall.before, heapCall.target)
       /\ Deref(heapCall.heap, heapCall.source) = Deref(heapCall.before, heapCall.source)
       /\ heapCall.merged \notin DOMAIN heapCall.before

\* Target and source both hold a mapping at "db" with different keys: the
\* result has the composed mapping, the target still has its own.
C22_Witness ==
  /\ heapCall.returned
  /\ Deref(heapCall.before, heapCall.target) = [db |-> Obj([host |-> IntV("1")])]
  /\ Deref(heapCall.before, heapCall.source) = [db |-> Obj([port |-> Null])]
  /\ Deref(heapCall.heap, heapCall.merged) = [db |-> Obj([host |-> IntV("1"), port |-> Null])]
  /\ Deref(heapCall.heap, heapCall.target) = [db |-> Obj([host |-> IntV("1")])]


\* the single left-to-right fold of all the documents from the empty tree
FlatFold == FoldRightBiased(EmptyConfig, assoc.files)

RECURSIVE Shadowed(_, _, _)
Shadowed(A, B, C) ==
  \E k \in DOMAIN A \cap DOMAIN B \cap DOMAIN C :
    /\ A[k].kind = "object" /\ C[k].kind = "object"
    /\ \/ B[k].kind # "object"
       \/ Shadowed(A[k].fields, B[k].fields, C[k].fields)

\* no environment file brings back a mapping at a key where the default
\* layer holds a mapping and the environment files before it a non-mapping
LayersCompose(defaultFiles, envFiles) ==
  \A j \in 2..Len(envFiles) :
    ~Shadowed(FoldRightBiased(EmptyConfig, defaultFiles),
              FoldRightBiased(EmptyConfig, SubSeq(envFiles, 1, j - 1)),
              envFiles[j])

RECURSIVE IsJsonValue(_)
IsJsonMapping(config) == \A k \in DOMAIN config : IsJsonValue(config[k])

IsJsonValue(value) ==
  /\ value # Undefined
  /\ \/ value.kind \in {"integer", "string", "boolean", "null"}
     \/ value.kind = "array" /\ \A i \in DOMAIN value.items : IsJsonValue(value.items[i])
     \/ value.kind = "object" /\ \A k \in DOMAIN value.fields : IsJsonValue(value.fields[k])

\* C24: for all JSON mappings A and B, mergeConfigs(A, B) returns a JSON
\* mapping whose keys are exactly those of A and of B; merging with the empty
\* tree on either side gives the other argument, and merging a mapping with
\* itself gives that mapping.
C24_MergeTotalWithIdentity ==
  returned
    => /\ IsJsonMapping(merged)
       /\ DOMAIN merged = DOMAIN target \cup DOMAIN source
       /\ target = EmptyConfig => merged = source
       /\ source = EmptyConfig => merged = target
       /\ target = source => merged = target

\* A document with a nested mapping, an array and a null merged with itself.
C24_Witness ==
  /\ returned
  /\ target = [db |-> Obj([host |-> Obj([tls |-> Null]), port |-> IntV("1")]),
               list |-> Arr(<<IntV("3")>>)]
  /\ source = target
  /\ merged = target

====
